---- MODULE Spec2Model ----
(***************************************************************************)
(* Wavelength service worker (src/sw.js): the periodic background feed     *)
(* check.  The model covers the IndexedDB key-value mirror (swGet/swSet),  *)
(* the ordered proxy fallback chain (fetchFeedRaw), the feed parser        *)
(* (parseFeedXml), the diff/dedup/merge loop and the notification decision *)
(* of backgroundCheckFeeds, and showNewEpisodeNotification.                *)
(*                                                                         *)
(* JavaScript objects are insertion-ordered maps; they are modelled as     *)
(* sequences of [k, v] records so that Object.keys / Object.entries order  *)
(* is part of the state.  null is the record Null.  An episode carries the *)
(* two fields the algorithms read (title, audioUrl); description, pubDate, *)
(* duration and image are copied through unread and are left out.          *)
(***************************************************************************)
EXTENDS Integers, Sequences, FiniteSets, TLC

\* ------------------------------------------------------------------ bounds
\* Number of periodicsync events delivered in one behaviour.
MaxRuns == 2

\* How many of them are followed to their end under fair scheduling.
MaxLiveRuns == 1

\* ------------------------------------------------------- program constants
\* fetchFeedRaw rejects a body shorter than this many characters.
MinBodyLen == 100

\* The proxy chain, in list order; the first entry wraps the body in JSON.
PROXY_FALLBACKS == <<"allorigins", "corsproxy">>

Null == [null |-> TRUE]

\* ------------------------------------------------------ JS object helpers
Keys(o) == [i \in 1..Len(o) |-> o[i].k]

Has(o, key) == \E i \in 1..Len(o) : o[i].k = key

Get(o, key) == o[CHOOSE i \in 1..Len(o) : o[i].k = key].v

\* o[key] = val: an existing key keeps its place, a new key goes last.
Put(o, key, val) ==
    IF Has(o, key)
    THEN [i \in 1..Len(o) |-> IF o[i].k = key THEN [k |-> key, v |-> val] ELSE o[i]]
    ELSE Append(o, [k |-> key, v |-> val])

\* newEps[feedUrl] || []
GetOrEmpty(o, key) == IF Has(o, key) THEN Get(o, key) ELSE <<>>

\* ------------------------------------------------------------------ parser
\* A raw document: whether it has a channel/feed root, the channel title and
\* image, and the item elements, each with a title and an enclosure url
\* ("" when the item has no enclosure).
Episode(title, url) == [title |-> title, audioUrl |-> url]

ParseItem(it) == Episode(it.title, it.enclosure)

parseFeedXml(doc) ==
    IF ~doc.root THEN Null
    ELSE [title |-> doc.title,
          image |-> doc.image,
          eps   |-> SelectSeq([i \in 1..Len(doc.items) |-> ParseItem(doc.items[i])],
                              LAMBDA e : e.audioUrl # "")]

\* ----------------------------------------------------------------- fetcher
\* One strategy's response: status "throw" (network error or the 15 s abort),
\* "notok" (r.ok false) or "ok".  For the first strategy `envelope` says
\* whether the body decodes as JSON and `text` is its contents field; for the
\* others `text` is the raw body.  A text is its length, the feed-shape
\* markers it contains and the document it holds.
Throw == [status |-> "throw"]
NotOk == [status |-> "notok"]
OkResp(decodes, text) == [status |-> "ok", envelope |-> decodes, text |-> text]

Continue == [continue |-> TRUE]
Return(v) == [continue |-> FALSE, result |-> v]

HasMarker(text) ==
    \/ "<rss" \in text.markers
    \/ "<feed" \in text.markers
    \/ "<channel" \in text.markers

\* A variant of TryStrategy that gives up on a short body instead of going on.
TryStrategyShortEnds(i, resp) ==
    IF resp.status = "throw" THEN Continue
    ELSE IF resp.status = "notok" THEN Continue
    ELSE IF i = 1 /\ ~resp.envelope THEN Continue
    ELSE IF resp.text.len = 0 \/ resp.text.len < MinBodyLen THEN Return(Null)
    ELSE IF ~HasMarker(resp.text) THEN Continue
    ELSE Return(parseFeedXml(resp.text.doc))

\* The body of the for loop of fetchFeedRaw for strategy i.
TryStrategy(i, resp) ==
    IF resp.status = "throw" THEN Continue
    ELSE IF resp.status = "notok" THEN Continue
    ELSE IF i = 1 /\ ~resp.envelope THEN Continue
    ELSE IF resp.text.len = 0 \/ resp.text.len < MinBodyLen THEN Continue
    ELSE IF ~HasMarker(resp.text) THEN Continue
    ELSE Return(parseFeedXml(resp.text.doc))

RECURSIVE FetchFrom(_, _)
FetchFrom(chain, i) ==
    IF i > Len(PROXY_FALLBACKS) THEN Null
    ELSE LET s == TryStrategy(i, chain[i])
         IN  IF s.continue THEN FetchFrom(chain, i + 1) ELSE s.result

fetchFeedRaw(chain) == FetchFrom(chain, 1)

\* -------------------------------------------------------------- diff/merge
\* new Set(pod.eps.map(e => e.audioUrl))
KnownUrls(pod) == {pod.eps[i].audioUrl : i \in 1..Len(pod.eps)}

\* fresh.eps.filter(e => !knownUrls.has(e.audioUrl))
Novel(pod, fresh) == SelectSeq(fresh.eps, LAMBDA e : e.audioUrl \notin KnownUrls(pod))

\* arr.findIndex(x => x.audioUrl === url), for a url that occurs in arr
FindIndex(arr, url) ==
    CHOOSE i \in 1..Len(arr) :
        /\ arr[i].audioUrl = url
        /\ \A j \in 1..(i - 1) : arr[j].audioUrl # url

RECURSIVE FilterFrom(_, _)
FilterFrom(arr, i) ==
    IF i > Len(arr) THEN <<>>
    ELSE IF FindIndex(arr, arr[i].audioUrl) = i
         THEN <<arr[i]>> \o FilterFrom(arr, i + 1)
         ELSE FilterFrom(arr, i + 1)

\* arr.filter((ep, i, arr) => arr.findIndex(x => x.audioUrl === ep.audioUrl) === i)
DedupByAudioUrl(arr) == FilterFrom(arr, 1)

\* A variant of MergedPending that puts the novel episodes first.
MergedPendingNovelFirst(old, novel) == DedupByAudioUrl(novel \o old)

\* A variant of MergedPending without the filter.
MergedPendingNoFilter(old, novel) == old \o novel

\* The value assigned to newEps[feedUrl] when novel is not empty.
MergedPending(old, novel) == DedupByAudioUrl(old \o novel)

\* A variant of ReplacedPodcast that keeps only the novel episodes.
ReplacedPodcastNovelOnly(pod, fresh, novel) == [fresh EXCEPT !.eps = novel]

\* The value assigned to pods[feedUrl] when novel is not empty.
ReplacedPodcast(pod, fresh, novel) == fresh

\* A variant of FoundCount that counts the feed, not its episodes.
FoundCountFeeds(novel) == 1

\* The amount added to totalFound.
FoundCount(novel) == Len(novel)

\* ---------------------------------------------------------------- notifier
\* The body of the alert of showNewEpisodeNotification(count, newEps, pods).
AlertBody(count, newEps, pods) ==
    LET firstFeed == Keys(newEps)[1]
        pending   == Get(newEps, firstFeed)
        epTitle   == IF Len(pending) > 0 /\ pending[1].title # ""
                     THEN pending[1].title ELSE "New episode"
        podTitle  == IF Has(pods, firstFeed) /\ Get(pods, firstFeed).title # ""
                     THEN Get(pods, firstFeed).title ELSE "Your podcast"
    IN  IF count = 1
        THEN [kind |-> "single", ep |-> epTitle, pod |-> podTitle]
        ELSE [kind |-> "count", count |-> count]

\* A variant of ShouldNotify with some() in place of every().
ShouldNotifySome(cs) == cs = {} \/ \E c \in cs : c.visibilityState = "hidden"

\* if (!clients.length || clients.every(c => c.visibilityState === 'hidden'))
ShouldNotify(cs) == cs = {} \/ \A c \in cs : c.visibilityState = "hidden"

\* ------------------------------------------------------------- environment
Feeds == {"a", "b"}
Runs == {1, 2}
Windows == {"w1", "w2"}

PodTitle(f) == IF f = "a" THEN "Pod a" ELSE "Pod b"

E1 == Episode("t1", "u1")
E2 == Episode("t2", "u2")
E3 == Episode("t3", "u3")

Item(title, url) == [title |-> title, enclosure |-> url]
I1 == Item("t1", "u1")
I2 == Item("t2", "u2")
I3 == Item("t3", "u3")
I2again == Item("t2 (repost)", "u2")
INoAudio == Item("t0", "")

Doc(f, items) == [root |-> TRUE, title |-> PodTitle(f), image |-> "img", items |-> items]
NoRootDoc == [root |-> FALSE, title |-> "", image |-> "", items |-> <<>>]

GoodText(doc)  == [len |-> 500, markers |-> {"<rss", "<channel"}, doc |-> doc]
ShortText(doc) == [len |-> 99, markers |-> {"<rss"}, doc |-> doc]

\* The responses the two proxies may give for feed f during a run: both fail;
\* the first returns a placeholder and the second the feed with a new item;
\* the first returns the unchanged feed; and, for feed "a" only, the first
\* body is no JSON and the second lists an enclosure twice; the first
\* returns markup without a channel; the feed has dropped and added items.
ChainCatalog(f) ==
    { <<Throw, NotOk>>,
      <<OkResp(TRUE, ShortText(Doc(f, <<I1>>))), OkResp(FALSE, GoodText(Doc(f, <<I1, I2>>)))>>,
      <<OkResp(TRUE, GoodText(Doc(f, <<I1>>))), Throw>> }
    \cup
    IF f # "a" THEN {}
    ELSE { <<OkResp(FALSE, GoodText(Doc(f, <<I1>>))),
             OkResp(FALSE, GoodText(Doc(f, <<I1, I2, INoAudio, I2again>>)))>>,
           <<OkResp(TRUE, GoodText(NoRootDoc)), OkResp(FALSE, GoodText(Doc(f, <<I1, I2>>)))>>,
           <<NotOk, OkResp(FALSE, GoodText(Doc(f, <<I3, I1>>)))>> }

\* What matchAll({type: 'window'}) may return: each open window once.
ClientSets ==
    { cs \in SUBSET [id : Windows, visibilityState : {"visible", "hidden"}] :
        \A c, d \in cs : c.id = d.id => c = d }

Pod(f, eps) == [title |-> PodTitle(f), image |-> "img", eps |-> eps]
Entry(key, val) == [k |-> key, v |-> val]

\* Subscriptions as the application may have mirrored them; "absent" is a
\* store without the record.  The last one holds a podcast without an eps list.
InitPods ==
    { <<>>,
      <<Entry("a", Pod("a", <<E1>>))>>,
      <<Entry("a", Pod("a", <<E1>>)), Entry("b", Pod("b", <<E1>>))>>,
      <<Entry("b", Pod("b", <<E1>>)), Entry("a", Pod("a", <<E1>>))>>,
      <<Entry("a", [title |-> "Pod a", image |-> "img"]), Entry("b", Pod("b", <<E1>>))>> }

InitNewEps == { <<>>, <<Entry("a", <<E2>>)>> }

\* Everything the surroundings may do during a run: the responses each feed
\* may be served, what matchAll may return, how a Store read may end ("ok",
\* "reqfail": the request fails, "openfail": opening the database fails),
\* whether a Store write may fail (FALSE), and how raising the alert may end.
FullEnv ==
    [served     |-> [f \in Feeds |-> ChainCatalog(f)],
     clientSets |-> ClientSets,
     reads      |-> {"ok", "reqfail", "openfail"},
     writes     |-> BOOLEAN,
     alerts     |-> {"unsupported", "shown", "rejected"}]

\* ------------------------------------------------------------------- state
VARIABLES
    kv,          \* the 'kv' object store: records pods, new_eps, last_check
    kvHas,       \* the keys present in the store
    clock,       \* Date.now()
    runsStarted, \* periodicsync events delivered so far
    env,         \* what the surroundings may do: see FullEnv
    pc,          \* per run: position in backgroundCheckFeeds
    pods,        \* per run: local pods
    newEps,      \* per run: local newEps
    totalFound,  \* per run: local totalFound
    idx,         \* per run: position in Object.entries(pods)
    clients,     \* per run: result of clients.matchAll
    sent,        \* per run: NEW_EPISODES messages posted to each window
    message,     \* per run: the message posted to the windows, if any
    alert,       \* per run: what showNewEpisodeNotification did
    novelLog,    \* per run: the novel episodes found, as [feed, ep], in order
    fetchLog,    \* per run: per feed processed, its fetch result
    failedAt,    \* per run: the await whose rejection ended the run
    readFailed,  \* per run: a Store read request failed and read as absent
    startKv,     \* per run: the store's records when the run began
    okRuns,      \* runs that reached their end with no failed Store read
    fChain, fIdx, fTried, fResult, fPc   \* one call of fetchFeedRaw, stepwise

storeVars == <<kv, kvHas>>
fetchVars == <<fChain, fIdx, fTried, fResult, fPc>>
vars == <<kv, kvHas, clock, runsStarted, env, pc, pods, newEps, totalFound,
          idx, clients, sent, message, alert, novelLog, fetchLog, failedAt, readFailed,
          startKv, okRuns, fChain, fIdx, fTried, fResult, fPc>>

NotCalled == [kind |-> "notcalled"]

NoMessage == [type |-> "none"]

\* { type: 'NEW_EPISODES', newEps }
Message(pending) == [type |-> "NEW_EPISODES", newEps |-> pending]

\* -------------------------------------------------------------------- store
\* swGet(key): the stored value, or null when the key is missing or the
\* request fails.  (openSwDB rejecting is the caller's "openfail" outcome.)
swGet(key, outcome) ==
    IF outcome = "ok" /\ key \in kvHas THEN [null |-> FALSE, v |-> kv[key]] ELSE Null

\* swGet(key) || {}
OrEmpty(got) == IF got.null THEN <<>> ELSE got.v

\* swSet(key, value) when the transaction completes.
swSet(key, value) ==
    /\ kv' = [kv EXCEPT ![key] = value]
    /\ kvHas' = kvHas \cup {key}

\* -------------------------------------------------------- the periodic run
Finished(r) == pc[r] \in {"idle", "done", "failed"}

Fail(r, where) ==
    /\ pc' = [pc EXCEPT ![r] = "failed"]
    /\ failedAt' = [failedAt EXCEPT ![r] = where]

\* The periodicsync listener: ev.waitUntil(backgroundCheckFeeds()).
Begin(r) ==
    /\ runsStarted < MaxRuns
    /\ runsStarted' = runsStarted + 1
    /\ clock' = clock + 1
    /\ pc' = [pc EXCEPT ![r] = "getSavedPods"]
    /\ pods' = [pods EXCEPT ![r] = <<>>]
    /\ newEps' = [newEps EXCEPT ![r] = <<>>]
    /\ totalFound' = [totalFound EXCEPT ![r] = 0]
    /\ idx' = [idx EXCEPT ![r] = 1]
    /\ clients' = [clients EXCEPT ![r] = {}]
    /\ sent' = [sent EXCEPT ![r] = [w \in Windows |-> 0]]
    /\ message' = [message EXCEPT ![r] = NoMessage]
    /\ alert' = [alert EXCEPT ![r] = NotCalled]
    /\ novelLog' = [novelLog EXCEPT ![r] = <<>>]
    /\ fetchLog' = [fetchLog EXCEPT ![r] = <<>>]
    /\ failedAt' = [failedAt EXCEPT ![r] = ""]
    /\ readFailed' = [readFailed EXCEPT ![r] = FALSE]
    /\ startKv' = [startKv EXCEPT ![r] = [kv |-> kv, has |-> kvHas]]
    /\ UNCHANGED <<storeVars, env, okRuns, fetchVars>>

\* const pods = await getSavedPods(); if (!pods || !Object.keys(pods).length) return;
GetSavedPods(r) ==
    /\ pc[r] = "getSavedPods"
    /\ \E outcome \in env.reads :
        IF outcome = "openfail"
        THEN Fail(r, "getSavedPods") /\ UNCHANGED <<pods, readFailed, okRuns>>
        ELSE LET p == OrEmpty(swGet("pods", outcome))
             IN  /\ pods' = [pods EXCEPT ![r] = p]
                 /\ pc' = [pc EXCEPT ![r] = IF Len(p) = 0 THEN "done" ELSE "getSavedNewEps"]
                 /\ readFailed' = [readFailed EXCEPT ![r] = outcome = "reqfail"]
                 /\ okRuns' = IF Len(p) = 0 /\ outcome = "ok" THEN okRuns + 1 ELSE okRuns
                 /\ UNCHANGED failedAt
    /\ UNCHANGED <<storeVars, clock, runsStarted, env, newEps, totalFound, idx,
                   clients, sent, message, alert, novelLog, fetchLog, startKv, fetchVars>>

\* const newEps = await getSavedNewEps(); let totalFound = 0;
GetSavedNewEps(r) ==
    /\ pc[r] = "getSavedNewEps"
    /\ \E outcome \in env.reads :
        IF outcome = "openfail"
        THEN Fail(r, "getSavedNewEps") /\ UNCHANGED <<newEps, readFailed>>
        ELSE /\ newEps' = [newEps EXCEPT ![r] = OrEmpty(swGet("new_eps", outcome))]
             /\ pc' = [pc EXCEPT ![r] = "loop"]
             /\ readFailed' = [readFailed EXCEPT ![r] = @ \/ outcome = "reqfail"]
             /\ UNCHANGED failedAt
    /\ UNCHANGED <<storeVars, clock, runsStarted, env, pods, totalFound, idx,
                   clients, sent, message, alert, novelLog, fetchLog, okRuns, startKv, fetchVars>>

\* The responses feed f may get now.
Served(f) == env.served[f]

\* A variant of AfterFeed in which a skipped feed leaves the loop.
AfterFeedBreak(skip, last, found) ==
    IF ~last /\ ~skip THEN "loop"
    ELSE IF found > 0 THEN "savePods" ELSE "setLastCheck"

\* A variant of AfterFeed that goes on to the writes whatever was found.
AfterFeedAlwaysSaves(skip, last, found) ==
    IF ~last THEN "loop" ELSE "savePods"

\* Where the run goes after an iteration: `continue` and the end of the try
\* block both go on with the next entry; after the last entry the test of
\* totalFound follows without an await.
AfterFeed(skip, last, found) ==
    IF ~last THEN "loop"
    ELSE IF found > 0 THEN "savePods" ELSE "setLastCheck"

\* A variant of NextIdx that stays on an entry whose feed was skipped.
NextIdxRetry(i, skip) == IF skip THEN i ELSE i + 1

\* for ... of: every iteration, skipped or not, moves to the next entry.
NextIdx(i, skip) == i + 1

\* One iteration of for (const [feedUrl, pod] of Object.entries(pods)) with
\* its try/catch; the entry at idx has not been assigned before, so it still
\* holds the pod that Object.entries captured.
ProcessFeed(r) ==
    /\ pc[r] = "loop"
    /\ idx[r] <= Len(pods[r])
    /\ LET feedUrl == pods[r][idx[r]].k
           pod     == pods[r][idx[r]].v
       IN \E chain \in Served(feedUrl) :
          LET fresh  == fetchFeedRaw(chain)
              skip   == fresh = Null \/ "eps" \notin DOMAIN pod
              novel  == IF skip THEN <<>> ELSE Novel(pod, fresh)
              merge  == Len(novel) > 0
              found  == IF merge THEN totalFound[r] + FoundCount(novel) ELSE totalFound[r]
              last   == idx[r] = Len(pods[r])
          IN  /\ newEps' = [newEps EXCEPT ![r] =
                    IF merge
                    THEN Put(@, feedUrl, MergedPending(GetOrEmpty(@, feedUrl), novel))
                    ELSE @]
              /\ pods' = [pods EXCEPT ![r] =
                    IF merge THEN Put(@, feedUrl, ReplacedPodcast(pod, fresh, novel)) ELSE @]
              /\ totalFound' = [totalFound EXCEPT ![r] = found]
              /\ novelLog' = [novelLog EXCEPT ![r] =
                    @ \o [i \in 1..Len(novel) |-> [feed |-> feedUrl, ep |-> novel[i]]]]
              /\ fetchLog' = [fetchLog EXCEPT ![r] =
                    Append(@, [feed |-> feedUrl, prior |-> pod, fresh |-> fresh])]
              /\ idx' = [idx EXCEPT ![r] = NextIdx(@, skip)]
              /\ pc' = [pc EXCEPT ![r] = AfterFeed(skip, last, found)]
    /\ UNCHANGED <<storeVars, clock, runsStarted, env, clients, sent, message, alert,
                   failedAt, readFailed, okRuns, startKv, fetchVars>>

\* await savePods(pods)
SavePods(r) ==
    /\ pc[r] = "savePods"
    /\ \E ok \in env.writes :
        IF ok
        THEN /\ swSet("pods", pods[r])
             /\ pc' = [pc EXCEPT ![r] = "saveNewEps"]
             /\ UNCHANGED failedAt
        ELSE Fail(r, "savePods") /\ UNCHANGED storeVars
    /\ UNCHANGED <<clock, runsStarted, env, pods, newEps, totalFound, idx,
                   clients, sent, message, alert, novelLog, fetchLog, readFailed, okRuns, startKv, fetchVars>>

\* await saveNewEps(newEps)
SaveNewEps(r) ==
    /\ pc[r] = "saveNewEps"
    /\ \E ok \in env.writes :
        IF ok
        THEN /\ swSet("new_eps", newEps[r])
             /\ pc' = [pc EXCEPT ![r] = "matchAll"]
             /\ UNCHANGED failedAt
        ELSE Fail(r, "saveNewEps") /\ UNCHANGED storeVars
    /\ UNCHANGED <<clock, runsStarted, env, pods, newEps, totalFound, idx,
                   clients, sent, message, alert, novelLog, fetchLog, readFailed, okRuns, startKv, fetchVars>>

\* const clients = await self.clients.matchAll(...); clients.forEach(postMessage);
\* and the test that guards showNewEpisodeNotification.
MatchAll(r) ==
    /\ pc[r] = "matchAll"
    /\ \E cs \in env.clientSets :
        /\ clients' = [clients EXCEPT ![r] = cs]
        /\ sent' = [sent EXCEPT ![r] =
              [w \in Windows |-> IF \E c \in cs : c.id = w THEN @[w] + 1 ELSE @[w]]]
        /\ message' = [message EXCEPT ![r] = IF cs = {} THEN @ ELSE Message(newEps[r])]
        /\ pc' = [pc EXCEPT ![r] = IF ShouldNotify(cs) THEN "notify" ELSE "setLastCheck"]
    /\ UNCHANGED <<storeVars, clock, runsStarted, env, pods, newEps, totalFound,
                   idx, alert, novelLog, fetchLog, failedAt, readFailed, okRuns, startKv, fetchVars>>

\* await showNewEpisodeNotification(totalFound, newEps, pods)
ShowNewEpisodeNotification(r) ==
    /\ pc[r] = "notify"
    /\ \E outcome \in env.alerts :
        IF outcome = "unsupported"
        THEN /\ alert' = [alert EXCEPT ![r] = [kind |-> "unsupported"]]
             /\ pc' = [pc EXCEPT ![r] = "setLastCheck"]
             /\ UNCHANGED failedAt
        ELSE IF outcome = "shown"
        THEN /\ alert' = [alert EXCEPT ![r] = AlertBody(totalFound[r], newEps[r], pods[r])]
             /\ pc' = [pc EXCEPT ![r] = "setLastCheck"]
             /\ UNCHANGED failedAt
        ELSE /\ alert' = [alert EXCEPT ![r] = [kind |-> "rejected"]]
             /\ Fail(r, "showNotification")
    /\ UNCHANGED <<storeVars, clock, runsStarted, env, pods, newEps, totalFound,
                   idx, clients, sent, message, novelLog, fetchLog, readFailed, okRuns, startKv, fetchVars>>

\* await setLastCheck(Date.now())
SetLastCheck(r) ==
    /\ pc[r] = "setLastCheck"
    /\ \E ok \in env.writes :
        IF ok
        THEN /\ swSet("last_check", clock)
             /\ pc' = [pc EXCEPT ![r] = "done"]
             /\ okRuns' = IF readFailed[r] THEN okRuns ELSE okRuns + 1
             /\ UNCHANGED failedAt
        ELSE Fail(r, "setLastCheck") /\ UNCHANGED <<storeVars, okRuns>>
    /\ UNCHANGED <<clock, runsStarted, env, pods, newEps, totalFound, idx,
                   clients, sent, message, alert, novelLog, fetchLog, readFailed, startKv, fetchVars>>

Step(r) ==
    \/ GetSavedPods(r)
    \/ GetSavedNewEps(r)
    \/ ProcessFeed(r)
    \/ SavePods(r)
    \/ SaveNewEps(r)
    \/ MatchAll(r)
    \/ ShowNewEpisodeNotification(r)
    \/ SetLastCheck(r)

\* --------------------------------------------------------- initial states
InitStore ==
    /\ \E p \in InitPods, n \in InitNewEps, hasPods \in BOOLEAN :
        /\ hasPods \/ p = <<>>
        /\ kv = [pods |-> p, new_eps |-> n, last_check |-> 0]
        /\ kvHas = (IF hasPods THEN {"pods"} ELSE {}) \cup (IF n = <<>> THEN {} ELSE {"new_eps"})
    /\ clock = 0
    /\ runsStarted = 0
    /\ okRuns = 0

InitRuns ==
    /\ pc = [r \in Runs |-> "idle"]
    /\ pods = [r \in Runs |-> <<>>]
    /\ newEps = [r \in Runs |-> <<>>]
    /\ totalFound = [r \in Runs |-> 0]
    /\ idx = [r \in Runs |-> 1]
    /\ clients = [r \in Runs |-> {}]
    /\ sent = [r \in Runs |-> [w \in Windows |-> 0]]
    /\ message = [r \in Runs |-> NoMessage]
    /\ alert = [r \in Runs |-> NotCalled]
    /\ novelLog = [r \in Runs |-> <<>>]
    /\ fetchLog = [r \in Runs |-> <<>>]
    /\ failedAt = [r \in Runs |-> ""]
    /\ readFailed = [r \in Runs |-> FALSE]
    /\ startKv = [r \in Runs |-> [kv |-> kv, has |-> kvHas]]

InitFetchIdle ==
    /\ fChain = <<>>
    /\ fIdx = 1
    /\ fTried = <<>>
    /\ fResult = Null
    /\ fPc = "idle"

\* Runs delivered one after the other: the next periodicsync event arrives
\* when the previous run has settled.  Each fetch may be served differently.
Init ==
    /\ InitStore
    /\ InitRuns
    /\ InitFetchIdle
    /\ env = FullEnv

SeqBegin == Finished(1) /\ Begin(1)

SeqStep == Step(1)

Next == SeqBegin \/ SeqStep

Spec == Init /\ [][Next]_vars

\* The same runs under the scheduling the platform gives a handler passed to
\* ev.waitUntil: the worker is kept alive while the run is pending and every
\* await of the run settles (a Store request completes or errors, a
\* transport attempt answers or is cancelled by its timeout), so a step of
\* the run that stays possible is taken.  No event is owed: a new run may
\* never begin.
LiveBegin == runsStarted < MaxLiveRuns /\ SeqBegin

NextLive == LiveBegin \/ SeqStep

SpecLive == Init /\ [][NextLive]_vars /\ WF_vars(SeqStep)

\* The same runs against an upstream that does not change: every fetch of a
\* feed is served the same responses.
InitFixed ==
    /\ InitStore
    /\ InitRuns
    /\ InitFetchIdle
    /\ \E ca \in ChainCatalog("a"), cb \in ChainCatalog("b") :
        env = [FullEnv EXCEPT !.served = [f \in Feeds |-> IF f = "a" THEN {ca} ELSE {cb}]]

SpecFixed == InitFixed /\ [][Next]_vars

\* The listener as written: nothing keeps a second periodicsync event from
\* starting a run while the first is still in flight.
OverlapBegin == \E r \in Runs : pc[r] = "idle" /\ Begin(r)

\* Two subscribed feeds, a reliable Store, and an upstream that publishes
\* while the runs are in flight.
InitOverlap ==
    /\ kv = [pods |-> <<Entry("a", Pod("a", <<E1>>)), Entry("b", Pod("b", <<E1>>))>>,
             new_eps |-> <<>>, last_check |-> 0]
    /\ kvHas = {"pods"}
    /\ clock = 0
    /\ runsStarted = 0
    /\ okRuns = 0
    /\ InitRuns
    /\ InitFetchIdle
    /\ env = [served     |-> [f \in Feeds |->
                                {<<Throw, NotOk>>,
                                 <<Throw, OkResp(FALSE, GoodText(Doc(f, <<I1, I2>>)))>>,
                                 <<Throw, OkResp(FALSE, GoodText(Doc(f, <<I1, I2, I2again>>)))>>,
                                 <<NotOk, OkResp(FALSE, GoodText(Doc(f, <<I3, I1>>)))>>}],
              clientSets |-> {{}, {[id |-> "w1", visibilityState |-> "visible"]}},
              reads      |-> {"ok"},
              writes     |-> {TRUE},
              alerts     |-> {"shown"}]

OverlapStep == \E r \in Runs : Step(r)

NextOverlap == OverlapBegin \/ OverlapStep

SpecOverlap == InitOverlap /\ [][NextOverlap]_vars

\* ------------------------------------------------ fetchFeedRaw, step by step
Texts ==
    [len : {0, 99, 100, 500},
     markers : {{}, {"<rss"}, {"<feed"}, {"<channel"}},
     doc : {NoRootDoc, Doc("a", <<I1, I2>>), Doc("a", <<INoAudio, I3>>)}]

Responses == {Throw, NotOk} \cup {OkResp(decodes, t) : decodes \in BOOLEAN, t \in Texts}

InitFetch ==
    /\ kv = [pods |-> <<>>, new_eps |-> <<>>, last_check |-> 0]
    /\ kvHas = {}
    /\ clock = 0
    /\ runsStarted = 0
    /\ okRuns = 0
    /\ InitRuns
    /\ env = FullEnv
    /\ fChain \in [1..Len(PROXY_FALLBACKS) -> Responses]
    /\ fIdx = 1
    /\ fTried = <<>>
    /\ fResult = Null
    /\ fPc = "loop"

\* One iteration of for (const buildUrl of PROXY_FALLBACKS).
FetchTry ==
    /\ fPc = "loop"
    /\ fIdx <= Len(PROXY_FALLBACKS)
    /\ LET s == TryStrategy(fIdx, fChain[fIdx])
       IN  /\ fTried' = Append(fTried, PROXY_FALLBACKS[fIdx])
           /\ IF s.continue
              THEN fIdx' = fIdx + 1 /\ UNCHANGED <<fResult, fPc>>
              ELSE fResult' = s.result /\ fPc' = "returned" /\ UNCHANGED fIdx
    /\ UNCHANGED <<storeVars, clock, runsStarted, env, pc, pods, newEps, totalFound,
                   idx, clients, sent, message, alert, novelLog, fetchLog, failedAt, readFailed,
                   startKv, okRuns, fChain>>

\* return null, after the loop.
FetchExhausted ==
    /\ fPc = "loop"
    /\ fIdx > Len(PROXY_FALLBACKS)
    /\ fResult' = Null
    /\ fPc' = "returned"
    /\ UNCHANGED <<storeVars, clock, runsStarted, env, pc, pods, newEps, totalFound,
                   idx, clients, sent, message, alert, novelLog, fetchLog, failedAt, readFailed,
                   startKv, okRuns, fChain, fIdx, fTried>>

NextFetch == FetchTry \/ FetchExhausted

SpecFetch == InitFetch /\ [][NextFetch]_vars

\* ================================================================== claims
Urls(eps) == {eps[i].audioUrl : i \in 1..Len(eps)}

NoDuplicateUrl(eps) ==
    \A i, j \in 1..Len(eps) : i # j => eps[i].audioUrl # eps[j].audioUrl

LastCheckIsFresh == "last_check" \in kvHas /\ kv.last_check = clock

\* The run has both of its writes behind it.
WritesDone(r) ==
    \/ pc[r] \in {"matchAll", "notify", "setLastCheck", "done"}
    \/ pc[r] = "failed" /\ failedAt[r] \in {"showNotification", "setLastCheck"}

\* C1 - Idempotence: against an upstream that serves every feed the same
\* responses, once a run has reached its end (with its Store reads
\* delivered), no later run changes the stored 'pods' or 'new_eps' records.
C1_Idempotent ==
    [][okRuns >= 1 =>
         /\ kv'.pods = kv.pods
         /\ kv'.new_eps = kv.new_eps
         /\ kvHas' \ {"last_check"} = kvHas \ {"last_check"}]_vars

\* A second run has ended after a first one recorded novel episodes of feed
\* "b", and the second run fetched that feed again with success.
C1_Witness ==
    /\ okRuns >= 2
    /\ pc[1] = "done"
    /\ totalFound[1] = 0
    /\ Has(kv.new_eps, "b")
    /\ "u2" \in Urls(Get(kv.new_eps, "b"))
    /\ \E i \in 1..Len(fetchLog[1]) :
          fetchLog[1][i].feed = "b" /\ fetchLog[1][i].fresh # Null

\* C2 - Dedup invariant: in every state of the Store, no pending sequence
\* holds two episodes with the same audioUrl, also when runs overlap, when a
\* fresh feed lists an audioUrl twice and when it lists one already pending.
C2_PendingDeduplicated ==
    \A i \in 1..Len(kv.new_eps) : NoDuplicateUrl(kv.new_eps[i].v)

\* A run has stored its pending map after finding the same audioUrl twice
\* among the novel episodes of one feed.
C2_Witness ==
    \E r \in Runs :
        /\ WritesDone(r)
        /\ kv.new_eps = newEps[r]
        /\ \E i, j \in 1..Len(novelLog[r]) :
              /\ i # j
              /\ novelLog[r][i].feed = novelLog[r][j].feed
              /\ novelLog[r][i].ep.audioUrl = novelLog[r][j].ep.audioUrl

\* The audioUrls of the fresh document that the prior podcast did not have.
NovelUrls(e) == Urls(e.fresh.eps) \ Urls(e.prior.eps)

\* C3 - Fault isolation: when a run has its writes behind it (and its Store
\* reads were delivered), every subscribed feed was attempted; a feed whose
\* fetch failed, or whose diff threw, has its stored podcast and pending
\* entries as they were when the run began; a feed whose fetch brought novel episodes has the
\* fresh podcast stored and every novel audioUrl in its stored pending
\* sequence, whatever the order of the feeds.
C3_FaultIsolation ==
    \A r \in Runs :
        (WritesDone(r) /\ ~readFailed[r]) =>
            /\ Len(fetchLog[r]) = Len(startKv[r].kv.pods)
            /\ \A i \in 1..Len(fetchLog[r]) :
                 LET e == fetchLog[r][i]
                     f == e.feed
                     before == startKv[r].kv
                 IN  /\ (e.fresh = Null \/ "eps" \notin DOMAIN e.prior) =>
                           /\ Get(kv.pods, f) = Get(before.pods, f)
                           /\ Has(kv.new_eps, f) = Has(before.new_eps, f)
                           /\ GetOrEmpty(kv.new_eps, f) = GetOrEmpty(before.new_eps, f)
                     /\ (e.fresh # Null /\ "eps" \in DOMAIN e.prior /\ NovelUrls(e) # {}) =>
                           /\ Get(kv.pods, f) = e.fresh
                           /\ NovelUrls(e) \subseteq Urls(GetOrEmpty(kv.new_eps, f))

\* A run has ended in which the first feed's fetch failed on every strategy
\* and the second feed's fetch brought novel episodes.
C3_Witness ==
    /\ pc[1] = "done"
    /\ ~readFailed[1]
    /\ Len(fetchLog[1]) = 2
    /\ fetchLog[1][1].fresh = Null
    /\ fetchLog[1][2].fresh # Null
    /\ totalFound[1] > 0
    /\ \E i \in 1..Len(novelLog[1]) : novelLog[1][i].feed = fetchLog[1][2].feed

\* The strategies whose response the chain accepts: success status, a body
\* that decodes, at least MinBodyLen characters, at least one marker.
Usable ==
    {i \in 1..Len(PROXY_FALLBACKS) :
        /\ fChain[i].status = "ok"
        /\ (i = 1 => fChain[i].envelope)
        /\ fChain[i].text.len >= MinBodyLen
        /\ fChain[i].text.markers \cap {"<rss", "<feed", "<channel"} # {}}

\* C4 - Fallback ordering: the strategies are tried strictly in list order;
\* the result is the parser's result on the body of the first usable
\* strategy, reached after trying exactly the strategies before it, and none
\* when no strategy is usable, after trying them all.
C4_FallbackOrdering ==
    /\ fTried = SubSeq(PROXY_FALLBACKS, 1, Len(fTried))
    /\ fPc = "returned" =>
          /\ fResult = fetchFeedRaw(fChain)
          /\ IF Usable = {}
             THEN fResult = Null /\ fTried = PROXY_FALLBACKS
             ELSE LET first == CHOOSE i \in Usable : \A j \in Usable : i <= j
                  IN  /\ fResult = parseFeedXml(fChain[first].text.doc)
                      /\ fTried = SubSeq(PROXY_FALLBACKS, 1, first)

\* Chain [X, Y]: X answers with a body under 100 characters, Y with a valid
\* document, and the call has returned Y's parsed episodes.
C4_Witness ==
    /\ fPc = "returned"
    /\ fChain[1].status = "ok"
    /\ fChain[1].envelope
    /\ fChain[1].text.len = 99
    /\ fChain[2].status = "ok"
    /\ fResult # Null
    /\ fResult = parseFeedXml(fChain[2].text.doc)
    /\ Len(fResult.eps) > 0
    /\ fTried = PROXY_FALLBACKS

\* C5 - as claimed: every run that has ended has written a new 'last_check',
\* whatever its outcome, an empty Subscriptions included.
C5_LastCheckAlwaysWritten ==
    \A r \in Runs : pc[r] = "done" => LastCheckIsFresh

\* Between its first Store read and its last Store write.
InFlight(r) ==
    pc[r] \in {"getSavedNewEps", "loop", "savePods", "saveNewEps", "matchAll", "notify",
               "setLastCheck"}

\* C6 - as claimed: at most one run is between its initial Store read and
\* its final Store write at any time.
C6_RunsSerialized ==
    Cardinality({r \in Runs : InFlight(r)}) <= 1

Open(r, w) == \E c \in clients[r] : c.id = w

\* C7 - Notification decision: a window is sent at most one message per run,
\* and a message or a call of the notifier happens only in a run that found
\* novel episodes and after its state is in the Store; a run that found
\* novel episodes and reached its end has sent exactly one message to every
\* open window and none to the others, and has called the notifier exactly
\* when no window was open or every open window was hidden; a run that
\* found none has sent nothing and not called the notifier.
C7_NotificationDecision ==
    \A r \in Runs :
        /\ \A w \in Windows : sent[r][w] <= 1
        /\ ((\E w \in Windows : sent[r][w] > 0) \/ alert[r] # NotCalled) =>
              /\ totalFound[r] > 0
              /\ {"pods", "new_eps"} \subseteq kvHas
              /\ kv.pods = pods[r]
              /\ kv.new_eps = newEps[r]
        /\ (pc[r] = "done" /\ totalFound[r] > 0) =>
              /\ \A w \in Windows : sent[r][w] = (IF Open(r, w) THEN 1 ELSE 0)
              /\ alert[r] # NotCalled <=>
                    (\A w \in Windows : ~Open(r, w))
                    \/ (\A c \in clients[r] : c.visibilityState = "hidden")
        /\ (pc[r] = "done" /\ totalFound[r] = 0) =>
              /\ \A w \in Windows : sent[r][w] = 0
              /\ alert[r] = NotCalled

\* A run that found novel episodes has ended with one hidden and one visible
\* window open: both got the message and the notifier was not called.
C7_Witness ==
    /\ pc[1] = "done"
    /\ totalFound[1] > 0
    /\ \E c, d \in clients[1] : c.visibilityState = "hidden" /\ d.visibilityState = "visible"
    /\ \A w \in Windows : sent[1][w] = 1
    /\ alert[1] = NotCalled

\* C8 - as claimed: an alert raised for a single novel episode names that
\* episode's title and the title of the podcast it belongs to.
C8_SingleAlertNamesNovel ==
    \A r \in Runs :
        alert[r].kind = "single" =>
            /\ Len(novelLog[r]) = 1
            /\ alert[r].ep = novelLog[r][1].ep.title
            /\ alert[r].pod = Get(pods[r], novelLog[r][1].feed).title

\* C9 - as claimed: a run whose write of 'pods' or 'new_eps' failed has
\* still written a new 'last_check' when it ends.
C9_WriteFailureKeepsLastCheck ==
    \A r \in Runs :
        (pc[r] = "failed" /\ failedAt[r] \in {"savePods", "saveNewEps"}) => LastCheckIsFresh

\* C10 - as claimed: no stored podcast lists an audioUrl twice.
C10_SubscriptionUrlsUnique ==
    \A i \in 1..Len(kv.pods) :
        "eps" \in DOMAIN kv.pods[i].v => NoDuplicateUrl(kv.pods[i].v.eps)

\* The 'pods' and 'new_eps' records are what they were when run r began.
RecordsAsAtBegin(r) ==
    /\ kv.pods = startKv[r].kv.pods
    /\ kv.new_eps = startKv[r].kv.new_eps
    /\ kvHas \cap {"pods", "new_eps"} = startKv[r].has \cap {"pods", "new_eps"}

\* C11 - Writes only on novelty: a run that has found no novel episode is
\* never at one of the steps that follow the test of totalFound (the two
\* writes, the messages, the alert), and the stored 'pods' and 'new_eps'
\* records are as they were when it began.
C11_NoWriteWithoutNovel ==
    \A r \in Runs :
        (pc[r] # "idle" /\ totalFound[r] = 0) =>
            /\ pc[r] \notin {"savePods", "saveNewEps", "matchAll", "notify"}
            /\ RecordsAsAtBegin(r)

\* A run has ended that fetched a feed with success and found nothing novel
\* in any feed.
C11_Witness ==
    /\ pc[1] = "done"
    /\ totalFound[1] = 0
    /\ Len(fetchLog[1]) = 2
    /\ \E i \in 1..Len(fetchLog[1]) :
          fetchLog[1][i].fresh # Null /\ "eps" \in DOMAIN fetchLog[1][i].prior

\* C12 - as claimed: once a run has its writes behind it, every feed whose
\* fetch succeeded has the freshly parsed podcast stored, novel episodes or
\* not.
C12_ReplacedOnEveryRefresh ==
    \A r \in Runs :
        WritesDone(r) =>
            \A i \in 1..Len(fetchLog[r]) :
                LET e == fetchLog[r][i]
                IN  (e.fresh # Null /\ "eps" \in DOMAIN e.prior) =>
                        Get(kv.pods, e.feed) = e.fresh

\* C12 - amended: once a run has its writes behind it, a feed whose fetch
\* brought at least one novel episode has the freshly parsed podcast stored,
\* whole; a feed whose fetch succeeded without a novel episode has the
\* podcast stored that the run read, whatever the fresh document says.
C12_ReplacedWhenNovel ==
    \A r \in Runs :
        WritesDone(r) =>
            \A i \in 1..Len(fetchLog[r]) :
                LET e == fetchLog[r][i]
                IN  (e.fresh # Null /\ "eps" \in DOMAIN e.prior) =>
                        Get(kv.pods, e.feed) = (IF NovelUrls(e) # {} THEN e.fresh ELSE e.prior)

\* A run has stored a fresh podcast that dropped none and added one episode
\* in front, and a later run has fetched a document of the same feed that
\* differs from the stored podcast without a novel episode.
C12_Witness ==
    /\ pc[1] = "done"
    /\ runsStarted = 2
    /\ \E i \in 1..Len(fetchLog[1]) :
          LET e == fetchLog[1][i]
          IN  /\ e.fresh # Null
              /\ e.prior = Pod("a", <<E3, E1>>)
              /\ NovelUrls(e) = {}
              /\ e.fresh # e.prior
    /\ \E j \in 1..Len(fetchLog[1]) :
          LET e == fetchLog[1][j]
          IN  e.fresh # Null /\ "eps" \in DOMAIN e.prior /\ NovelUrls(e) # {}

\* C13 - as claimed: in every state the stored 'pods' and 'new_eps' records
\* are either both what they were when the run began or both what the run
\* computed.
C13_WriteBackAtomic ==
    \A r \in Runs :
        pc[r] # "idle" =>
            \/ RecordsAsAtBegin(r)
            \/ kv.pods = pods[r] /\ kv.new_eps = newEps[r]

\* C14 - as claimed: a run in which raising the alert failed does not fail;
\* it goes on to its remaining step.
C14_AlertFailureDoesNotAbort ==
    \A r \in Runs :
        alert[r] = [kind |-> "rejected"] => pc[r] # "failed"

\* C15 - as claimed: no read of the Store makes the run fail, whether the
\* database could not be opened or the read request failed.
C15_GetNeverThrows ==
    \A r \in Runs :
        pc[r] = "failed" => failedAt[r] \notin {"getSavedPods", "getSavedNewEps"}

\* The attempts of a run whose fetch succeeded and whose diff did not throw.
Refreshed(r) ==
    {i \in 1..Len(fetchLog[r]) :
        fetchLog[r][i].fresh # Null /\ "eps" \in DOMAIN fetchLog[r][i].prior}

\* The feeds in which run r found a novel episode.
NovelFeeds(r) == {fetchLog[r][i].feed : i \in {j \in Refreshed(r) : NovelUrls(fetchLog[r][j]) # {}}}

RECURSIVE SumNovel(_, _)
\* The sum, over the first n attempts of run r, of the feed's novel episodes.
SumNovel(r, n) ==
    IF n = 0 THEN 0
    ELSE SumNovel(r, n - 1)
         + (IF n \in Refreshed(r)
            THEN Len(Novel(fetchLog[r][n].prior, fetchLog[r][n].fresh))
            ELSE 0)

\* C16 - as claimed: the message carries entries only of feeds in which this
\* run found a novel episode.
C16_MessageOnlyNovelFeeds ==
    \A r \in Runs :
        message[r] # NoMessage =>
            \A i \in 1..Len(message[r].newEps) : message[r].newEps[i].k \in NovelFeeds(r)

\* C16 - amended: the count of a run is the sum over its feeds of the number
\* of novel episodes, and the message a run posts carries the whole pending
\* map as the run stored it: an entry for every feed in which the run found
\* a novel episode, holding every novel audioUrl, and, unchanged, every entry
\* that was pending when the run began.
C16_MessageCarriesPending ==
    \A r \in Runs :
        /\ pc[r] \in {"savePods", "saveNewEps", "matchAll", "notify", "setLastCheck", "done"} =>
              totalFound[r] = SumNovel(r, Len(fetchLog[r]))
        /\ message[r] # NoMessage =>
              /\ message[r].type = "NEW_EPISODES"
              /\ message[r].newEps = kv.new_eps
              /\ ~readFailed[r] =>
                    LET old == startKv[r].kv.new_eps
                        now == message[r].newEps
                    IN  \A f \in Feeds :
                          /\ Has(now, f) <=> (Has(old, f) \/ f \in NovelFeeds(r))
                          /\ f \notin NovelFeeds(r) => GetOrEmpty(now, f) = GetOrEmpty(old, f)
                          /\ \A i \in Refreshed(r) :
                                fetchLog[r][i].feed = f =>
                                    NovelUrls(fetchLog[r][i]) \subseteq Urls(GetOrEmpty(now, f))

\* A run has posted its message after both feeds were fetched with success,
\* one yielding nothing and the other a novel episode, with an entry of the
\* first feed pending from before: the message carries both entries.
C16_Witness ==
    /\ message[1] # NoMessage
    /\ ~readFailed[1]
    /\ totalFound[1] = 1
    /\ Cardinality(Refreshed(1)) = 2
    /\ NovelFeeds(1) = {"b"}
    /\ Keys(message[1].newEps) = <<"a", "b">>

RECURSIVE KeepFirst(_)
\* eps without every episode whose audioUrl an earlier one already has.
KeepFirst(eps) ==
    IF eps = <<>> THEN <<>>
    ELSE LET front == KeepFirst(SubSeq(eps, 1, Len(eps) - 1))
             ep    == eps[Len(eps)]
         IN  IF ep.audioUrl \in Urls(front) THEN front ELSE Append(front, ep)

IsPrefix(a, b) == Len(a) <= Len(b) /\ SubSeq(b, 1, Len(a)) = a

\* The novel episodes run r found in feed f, in the order it found them.
NovelOf(r, f) ==
    LET found == SelectSeq(novelLog[r], LAMBDA n : n.feed = f)
    IN  [i \in 1..Len(found) |-> found[i].ep]

\* C17 - Diff and merge of one feed: when a run has its writes behind it
\* (and its Store reads were delivered), for every feed fetched with success
\* the novel episodes are the fresh episodes whose audioUrl the prior podcast
\* does not have, in the fresh order; the feed's stored pending sequence is
\* the old one followed by the novel ones without every later duplicate of
\* an audioUrl; and every sequence pending when the run began is still
\* pending, as a prefix of the stored one.
C17_DiffAndMerge ==
    \A r \in Runs :
        (WritesDone(r) /\ ~readFailed[r]) =>
            LET old == startKv[r].kv.new_eps
            IN  /\ \A i \in Refreshed(r) :
                      LET e     == fetchLog[r][i]
                          novel == SelectSeq(e.fresh.eps,
                                       LAMBDA x : x.audioUrl \notin Urls(e.prior.eps))
                          was   == GetOrEmpty(old, e.feed)
                      IN  /\ NovelOf(r, e.feed) = novel
                          /\ GetOrEmpty(kv.new_eps, e.feed) =
                                (IF novel = <<>> THEN was ELSE KeepFirst(was \o novel))
                /\ \A j \in 1..Len(old) :
                      /\ Has(kv.new_eps, old[j].k)
                      /\ IsPrefix(old[j].v, Get(kv.new_eps, old[j].k))

\* A run has ended that found a novel episode in a feed with an episode
\* pending from before: the feed's stored pending sequence is the old one
\* with the novel episode after it.
C17_Witness ==
    /\ pc[1] = "done"
    /\ ~readFailed[1]
    /\ startKv[1].kv.new_eps = <<Entry("a", <<E2>>)>>
    /\ NovelOf(1, "a") = <<E3>>
    /\ Get(kv.new_eps, "a") = <<E2, E3>>

\* The run is past its loop over the subscribed feeds.
PastLoop(r) ==
    \/ pc[r] \in {"savePods", "saveNewEps", "matchAll", "notify", "setLastCheck", "done"}
    \/ pc[r] = "failed" /\ failedAt[r] \notin {"getSavedPods", "getSavedNewEps"}

\* The feeds run r has fetched so far are the first entries of the
\* subscriptions it read, in their order, each fetched once; past the loop
\* they are all of them.
FetchedOnce(r) ==
    /\ Len(fetchLog[r]) <= Len(pods[r])
    /\ [i \in 1..Len(fetchLog[r]) |-> fetchLog[r][i].feed]
          = SubSeq(Keys(pods[r]), 1, Len(fetchLog[r]))
    /\ \A i, j \in 1..Len(fetchLog[r]) : i # j => fetchLog[r][i].feed # fetchLog[r][j].feed
    /\ PastLoop(r) => Len(fetchLog[r]) = Len(pods[r])

C19_NoLostUpdate ==
    (\A r \in Runs : pc[r] = "done") =>
        \A r \in Runs : \A i \in 1..Len(novelLog[r]) :
            novelLog[r][i].ep.audioUrl
                \in Urls(GetOrEmpty(kv.new_eps, novelLog[r][i].feed))

RECURSIVE PendingLen(_)
\* The number of pending episodes over all feeds.
PendingLen(o) == IF o = <<>> THEN 0 ELSE Len(o[1].v) + PendingLen(Tail(o))

\* The number of episodes run r added to the stored pending map.
Added(r) == PendingLen(kv.new_eps) - PendingLen(startKv[r].kv.new_eps)

\* C20 - as claimed: the count the alert of a run shows is the number of
\* episodes the run added to the pending map (its total length after the
\* run's write minus its total length when the run began).
C20_CountMatchesRecorded ==
    \A r \in Runs :
        ~readFailed[r] =>
            /\ alert[r].kind = "count" => alert[r].count = Added(r)
            /\ alert[r].kind = "single" => Added(r) = 1

====
